---- MODULE Spec2Model ----
(***************************************************************************)
(* FriendlyChat (src/scripts/main.js): the presence roster, the broker     *)
(* (PeerJS) session and the call coordinator of one local client, as a     *)
(* state machine.  Every handler of the source is one action; a handler's  *)
(* body is a function from the client's state (a record) to its state      *)
(* after the handler, so that nested calls (endCall inside callToUser,     *)
(* reloadUsers inside endCall, ...) compose as they do in the source.      *)
(*                                                                         *)
(* The two SDKs are outside the repository.  What the model takes from     *)
(* them is their documented contract:                                      *)
(*  - after `on` the store delivers the initial snapshot, child_added for   *)
(*    every present child, in one task once the data has arrived, and      *)
(*    from then on one event per change as the change reaches the client;  *)
(*    a local set() raises its event inside set(); `off` drops the         *)
(*    subscription.  `users` is the collection as this client sees it;     *)
(*  - a Peer is connecting, open (after its `open` event) or destroyed;    *)
(*    destroy() closes the Peer's connections and emits `close`;           *)
(*  - peer.connections[p] holds the connections with remote peer p that    *)
(*    are not closed (an inbound offer is one from its `call` event on);   *)
(*  - close() on a connection closes it and emits its `close` event;       *)
(*  - events are emitted synchronously to the handlers registered.         *)
(* SpecLate drops one assumption Spec makes, that a connection emits       *)
(* nothing once close() was called on it.                                  *)
(***************************************************************************)
EXTENDS Integers, Sequences, FiniteSets, TLC

\* ------------------------------------------------------------------ bounds
MaxPeers == 2
MaxCalls == 2
MaxMedia == 1
MaxKeys == 2
MaxImgs == 3

\* --------------------------------------------------------------- constants
Null == 0
LocalUid == "me"
RemoteUids == {"A"}
Uids == RemoteUids \cup {LocalUid}
\* The peer identifier the broker gave the remote client.  The local ones are
\* 1..MaxPeers, the index of the Peer each was given to.
RemotePeerIds == {11}
\* The store orders children by key.
KeyOrder == <<"A", "me">>
\* Image references: LOADING_IMAGE_URL, a direct URL, and the gs:// locators
\* of two files in storage.
LOADING_IMAGE_URL == "spin-32.gif"
StorageUris == {"gs://1", "gs://2"}
ImageUris == {LOADING_IMAGE_URL} \cup StorageUris
\* The text a user types (or "" for none).
Texts == {"hi"}

VARIABLES
  currentUser,  \* this.auth.currentUser is set (the local user is signed in)
  isOnline,     \* this.isOnline
  mediaStream,  \* this.mediaStream is set
  mediaWait,    \* the getUserMedia requests outstanding: the callback of each
  peers,        \* every Peer object created: its state
  peer,         \* this.peer: an index of peers, or Null
  peerId,       \* this.peerId: a local peer identifier, or Null
  calls,        \* the call handles (MediaConnection objects), by slot
  call,         \* this.call: an index of calls, or Null
  peerVideo,    \* the call whose remote stream the peerVideo element plays
  users,        \* the store's users collection
  usersOn,      \* the listeners of loadUsers: "off", "loading" (installed,
                \* the initial snapshot not yet delivered) or "live"
  userList,     \* the DOM of the roster: the entry rendered per uid
  unsynced,     \* history: since the roster was last rebuilt, something else
                \* than a users-collection listener emptied it (sign-out,
                \* lost store connection) or kept its entries across a new
                \* subscription (loadUsers at sign-in)
  messages,     \* the store's messages collection, in key order: the key of
                \* a message is its index
  messagesOn,   \* the listeners of loadMessages: "off", "loading", "live"
  messageList,  \* the DOM of the message list: the entries, in order
  imgs,         \* the img elements displayMessage created that are still in
                \* the list or have a getMetadata() call outstanding
  uploads,      \* the keys of the image messages whose upload is running
  storage,      \* the keys of the image messages whose file is in storage
  sendToast,    \* the snackbar message the last send handler showed, or ""
  last          \* how the handler that ran last ended, where it matters:
                \* "placed", "replaced", "accepted": a call session was
                \*   created (replaced: an earlier one was ended for it);
                \* "signalled": the broker signalled close or error on the
                \*   handle of the session;
                \* "ended": the session was ended otherwise;
                \* "retry", "retry.throw": a deferred callToUser was retried;
                \* "deferred": callToUser was deferred;
                \* "redisplayed": the snapshot a call transition's
                \*   reloadUsers asked for was rendered right after it;
                \* "unsetUser": a child_removed event was delivered;
                \* "rebuilt": the snapshot unsetUser's reloadUsers asked
                \*   for was rendered right after it;
                \* "error": the broker signalled an error on a Peer and no
                \*   session was ended by it (recorded under SpecErr only);
                \* "late": a handler of a replaced call ran (SpecLate only);
                \* "offline", "reconnected": a signed-in client lost the
                \*   store connection, and got it back in the next step
                \*   (SpecReconnect only);
                \* "throw": a TypeError ended the handler; "" otherwise

vars == <<currentUser, isOnline, mediaStream, mediaWait, peers, peer, peerId,
          calls, call, peerVideo, users, usersOn, userList,
          unsynced, messages, messagesOn, messageList, imgs, uploads,
          storage, sendToast, last>>

\* The message feed's part of the state.
feedVars == <<messages, messagesOn, messageList, imgs, uploads, storage,
              sendToast>>

\* The client's state as one record: the handlers below map it to the state
\* they leave.
S == [currentUser |-> currentUser, isOnline |-> isOnline,
      mediaStream |-> mediaStream, mediaWait |-> mediaWait, peers |-> peers,
      peer |-> peer, peerId |-> peerId, calls |-> calls, call |-> call,
      peerVideo |-> peerVideo, users |-> users, usersOn |-> usersOn,
      userList |-> userList, unsynced |-> unsynced,
      last |-> last]

Commit(t) ==
  /\ currentUser' = t.currentUser /\ isOnline' = t.isOnline
  /\ mediaStream' = t.mediaStream /\ mediaWait' = t.mediaWait
  /\ peers' = t.peers /\ peer' = t.peer /\ peerId' = t.peerId
  /\ calls' = t.calls /\ call' = t.call /\ peerVideo' = t.peerVideo
  /\ users' = t.users /\ usersOn' = t.usersOn
  /\ userList' = t.userList
  /\ unsynced' = t.unsynced /\ last' = t.last

\* A closed call handle that nothing refers to any more (not this.call, not
\* the peerVideo element, no notification on screen) has no further
\* behaviour: its slot is free again.
NoHandle == [remote |-> Null, dir |-> "", owner |-> Null, state |-> "free",
             prompt |-> "none", streamed |-> FALSE]
Slots == 1..MaxCalls
Collect(t) ==
  [t EXCEPT !.calls = [h \in Slots |->
     IF /\ t.calls[h].state = "closed" /\ t.calls[h].prompt # "shown"
        /\ t.call # h /\ t.peerVideo # h
     THEN NoHandle ELSE t.calls[h]]]

\* A handler that leaves the message feed alone.
Done(t, tag) == Commit(Collect([t EXCEPT !.last = tag])) /\ UNCHANGED feedVars

\* ------------------------------------------------------------- the store
Absent == [on |-> FALSE, peerId |-> Null]
Record(p) == [on |-> TRUE, peerId |-> p]
Present(us) == {u \in Uids : us[u].on}

\* ------------------------------------------------------------ the roster
NoEntry == [shown |-> FALSE, btn |-> FALSE, btnId |-> Null, icon |-> "",
            listener |-> "none"]
\* USER_TEMPLATE: an entry with its phone button, no icon text, no listener.
USER_TEMPLATE == [shown |-> TRUE, btn |-> TRUE, btnId |-> Null, icon |-> "",
                 listener |-> "none"]
Rendered(ul) == {u \in Uids : ul[u].shown}

\* clearUsers
ClearUsers(s) == [s EXCEPT !.userList = [u \in Uids |-> NoEntry]]

\* loadUsers: off() drops the old subscription; the new one starts with the
\* initial snapshot, which is yet to arrive.
LoadUsers(s) == [s EXCEPT !.usersOn = "loading"]

\* reloadUsers
ReloadUsers(s) == [LoadUsers(ClearUsers(s)) EXCEPT !.unsynced = FALSE]

\* this.peer.connections[p]: a connection of Peer k with remote peer p that
\* is not closed.
Connections(s, k, p) ==
  \E h \in Slots :
    /\ s.calls[h].owner = k /\ s.calls[h].remote = p
    /\ s.calls[h].state \in {"offered", "live"}

\* displayUser(uid, name, picUrl, peerId).  With this.peer null the read of
\* this.peer.connections throws after the button's id is set and the old
\* listener removed.
DisplayUser(s, uid, p) ==
  LET e0 == IF s.userList[uid].shown THEN s.userList[uid] ELSE USER_TEMPLATE
      e1 == IF s.currentUser /\ uid = LocalUid /\ e0.btn
            THEN [e0 EXCEPT !.btn = FALSE] ELSE e0
      e2 == IF s.currentUser /\ uid # LocalUid /\ p # Null
            THEN LET e == [e1 EXCEPT !.btnId = p, !.listener = "none"] IN
                 IF s.peer = Null THEN e
                 ELSE IF Connections(s, s.peer, p)
                      THEN [e EXCEPT !.icon = "call_end", !.listener = "endCall"]
                      ELSE [e EXCEPT !.icon = "call", !.listener = "callToUser"]
            ELSE e1  IN
  [s EXCEPT !.userList[uid] = e2]

DisplayUserThrows(s, uid, p) ==
  s.currentUser /\ uid # LocalUid /\ p # Null /\ s.peer = Null

\* setUser, the child_added and child_changed listener of loadUsers.
SetUser(s, uid) == DisplayUser(s, uid, s.users[uid].peerId)

\* A child_removed listener that leaves the roster as it is.
UnsetUserKeepsRoster(s) == s

\* unsetUser, the child_removed listener of loadUsers.
UnsetUser(s) == ReloadUsers(s)

\* The initial snapshot: child_added for every present child, in key order.
RECURSIVE Snapshot(_, _)
Snapshot(s, i) ==
  IF i > Len(KeyOrder) THEN s
  ELSE Snapshot(IF s.users[KeyOrder[i]].on THEN SetUser(s, KeyOrder[i]) ELSE s,
                i + 1)

\* A write of record r under uid; a live subscription gets its event.
StoreSet(s, uid, r) ==
  LET s1 == [s EXCEPT !.users[uid] = r] IN
  IF s.usersOn = "live" /\ s.users[uid] # r THEN SetUser(s1, uid) ELSE s1

\* The removal of uid's record; a live subscription gets its event.
StoreRemove(s, uid) ==
  LET s1 == [s EXCEPT !.users[uid] = Absent] IN
  IF s.usersOn = "live" /\ s.users[uid].on THEN UnsetUser(s1) ELSE s1

\* saveUser
SaveUser(s) ==
  IF s.currentUser THEN StoreSet(s, LocalUid, Record(s.peerId)) ELSE s

\* ------------------------------------------------------- calls and peers
\* A call handle: the remote peer, the direction, the Peer that owns it, its
\* state (offered: inbound and not answered; live: placed, or answered;
\* closed), the accept prompt of an inbound one (none, shown, expired), and
\* whether its `stream` event came.
Handle(p, dir, k, state) ==
  [remote |-> p, dir |-> dir, owner |-> k, state |-> state, prompt |-> "none",
   streamed |-> FALSE]

\* call.close()
CloseCall(cs, h) == [cs EXCEPT ![h].state = "closed"]

\* An endCall that forgets the call without closing it.
EndCallNoClose(s) ==
  IF s.call = Null THEN s ELSE ReloadUsers([s EXCEPT !.call = Null])

\* endCall.  close() emits `close`, whose handler (an outbound call's) is
\* endCall again: it finds the call closed, clears it and reloads, as the
\* outer one then does.
EndCall(s) ==
  IF s.call = Null THEN s
  ELSE ReloadUsers([s EXCEPT !.calls = CloseCall(s.calls, s.call),
                             !.call = Null])

\* peer.destroy() on Peer k: its connections are closed, and each outbound
\* one's `close` handler runs endCall.
Destroy(s, k) ==
  IF s.peers[k] = "destroyed" THEN s
  ELSE LET open == {h \in Slots : /\ s.calls[h].owner = k
                                  /\ s.calls[h].state \in {"offered", "live"}}
           s1 == [s EXCEPT !.peers[k] = "destroyed",
                           !.calls = [h \in Slots |->
                                        IF h \in open
                                        THEN [s.calls[h] EXCEPT !.state = "closed"]
                                        ELSE s.calls[h]]]  IN
       IF \E h \in open : s.calls[h].dir = "out" THEN EndCall(s1) ELSE s1

\* endPeerJs.  destroy() emits the Peer's `close`, whose handler is endPeerJs
\* again: it finds the Peer destroyed and clears this.peer.
EndPeerJs(s) ==
  IF s.peer = Null THEN s ELSE [Destroy(s, s.peer) EXCEPT !.peer = Null]

\* initPeerJs: a new Peer replaces this.peer (the old one is not destroyed).
InitPeerJs(s) ==
  IF s.currentUser
  THEN [s EXCEPT !.peers = Append(@, "connecting"), !.peer = Len(s.peers) + 1]
  ELSE s

\* initMeidaStream(cb)
InitMeidaStream(s, cb) == [s EXCEPT !.mediaWait = Append(@, cb)]

\* The slot a new call handle takes.
HasFreeSlot(s) == \E h \in Slots : s.calls[h].state = "free"
FreeSlot(s) ==
  CHOOSE h \in Slots : /\ s.calls[h].state = "free"
                       /\ \A g \in Slots : g < h => s.calls[g].state # "free"

\* callToUser(peerId) and how it ended.  this.peer.call throws when this.peer
\* is still null after initPeerJs (nobody is signed in).
CallToUserEnd(s) ==
  IF ~s.mediaStream THEN "deferred"
  ELSE IF s.peer = Null /\ ~s.currentUser THEN "throw"
  ELSE IF s.call # Null THEN "replaced" ELSE "placed"

CallToUser(s, p) ==
  IF ~s.mediaStream THEN InitMeidaStream(s, "callToUser")
  ELSE LET s1 == IF s.peer = Null THEN InitPeerJs(s) ELSE s
           s2 == IF s1.call # Null THEN EndCall(s1) ELSE s1  IN
       IF s2.peer = Null THEN s2
       ELSE ReloadUsers([s2 EXCEPT
              !.calls[FreeSlot(s)] = Handle(p, "out", s2.peer, "live"),
              !.call = FreeSlot(s)])

\* What callToUser(p) needs of the model's bounds.
CallToUserFits(s) ==
  IF ~s.mediaStream THEN Len(s.mediaWait) < MaxMedia
  ELSE /\ HasFreeSlot(s)
       /\ (s.peer = Null /\ s.currentUser) => Len(s.peers) < MaxPeers

\* getUserByPeerId(peerId) finds the phone button whose id is peerId.
HasUserByPeerId(s, p) ==
  \E u \in Uids : s.userList[u].shown /\ s.userList[u].btn
                  /\ s.userList[u].btnId = p

\* A reciveCall that takes the offered call as the session at once.
ReciveCallAccepts(s, h) == [s EXCEPT !.calls[h].prompt = "shown", !.call = h]

\* reciveCall(call): without a roster entry for call.peer getUserByPeerId
\* throws and no notification is shown.
ReciveCall(s, h) ==
  IF HasUserByPeerId(s, s.calls[h].remote)
  THEN [s EXCEPT !.calls[h].prompt = "shown"]
  ELSE s

\* answerCall(user, call)
AnswerCall(s, h) ==
  LET s1 == IF s.call # Null THEN EndCall(s) ELSE s
      c == s1.calls[h]  IN
  ReloadUsers([s1 EXCEPT
     !.call = h,
     !.calls[h].state = IF c.state = "offered" THEN "live" ELSE c.state])

\* -------------------------------------------------------- the message feed
\* The feed's state as one record; `over` is set when a handler needs more
\* img elements than the model holds.
F == [messages |-> messages, messagesOn |-> messagesOn,
      messageList |-> messageList, imgs |-> imgs, uploads |-> uploads,
      storage |-> storage, sendToast |-> sendToast, over |-> FALSE]

CommitFeed(f) ==
  /\ ~f.over
  /\ messages' = f.messages /\ messagesOn' = f.messagesOn
  /\ messageList' = f.messageList /\ imgs' = f.imgs
  /\ uploads' = f.uploads /\ storage' = f.storage
  /\ sendToast' = f.sendToast

\* A handler of the feed: the rest of the client keeps its state.
DoneFeed(f, tag) == Commit([S EXCEPT !.last = tag]) /\ CommitFeed(f)

\* An img element: its src and the getMetadata() calls outstanding for it.
ImgSlots == 1..MaxImgs
NoImg == [used |-> FALSE, src |-> "", pending |-> {}]
FreeImg(f) ==
  IF \E e \in ImgSlots : ~f.imgs[e].used
  THEN CHOOSE e \in ImgSlots :
         ~f.imgs[e].used /\ \A d \in ImgSlots : d < e => f.imgs[d].used
  ELSE Null

\* An element taken out of the list: it goes once nothing is to call back.
Detach(f, e) ==
  IF e # Null /\ f.imgs[e].pending = {} THEN [f EXCEPT !.imgs[e] = NoImg] ELSE f

\* metadata.downloadURLs[0] of a file in storage
DownloadURL(uri) == IF uri = "gs://1" THEN "https://1" ELSE "https://2"

\* setImageUrl(imageUri, imgElement) on a new element
SetImageUrl(imageUri) ==
  IF imageUri \in StorageUris
  THEN [used |-> TRUE, src |-> LOADING_IMAGE_URL, pending |-> {imageUri}]
  ELSE [used |-> TRUE, src |-> imageUri, pending |-> {}]

\* MESSAGE_TEMPLATE with its id set
MESSAGE_TEMPLATE(key) == [key |-> key, text |-> "", img |-> Null]

HasEntry(ml, key) == \E i \in DOMAIN ml : ml[i].key = key
EntryOf(ml, key) == CHOOSE i \in DOMAIN ml : ml[i].key = key

\* A displayMessage that stamps a new entry for every event.
DisplayMessageAppends(f, key, text, imageUri) ==
  LET ml == Append(f.messageList, MESSAGE_TEMPLATE(key))
      i == Len(ml)
      f0 == [f EXCEPT !.messageList = ml]  IN
  IF text # "" THEN [f0 EXCEPT !.messageList[i].text = text]
  ELSE IF imageUri # "" /\ FreeImg(f0) # Null
  THEN [f0 EXCEPT !.imgs[FreeImg(f0)] = SetImageUrl(imageUri),
                  !.messageList[i].img = FreeImg(f0)]
  ELSE f0

\* A displayMessage that keeps the img element an entry already has.
DisplayMessageReusesImg(f, key, text, imageUri) ==
  LET ml == IF HasEntry(f.messageList, key) THEN f.messageList
            ELSE Append(f.messageList, MESSAGE_TEMPLATE(key))
      i == EntryOf(ml, key)
      old == ml[i].img
      f0 == [f EXCEPT !.messageList = ml]  IN
  IF text # ""
  THEN [Detach(f0, old) EXCEPT
          !.messageList[i] = [key |-> key, text |-> text, img |-> Null]]
  ELSE IF imageUri # "" /\ old # Null
  THEN [f0 EXCEPT !.imgs[old].src = SetImageUrl(imageUri).src,
                  !.imgs[old].pending = @ \cup SetImageUrl(imageUri).pending]
  ELSE IF imageUri # ""
  THEN IF FreeImg(f0) = Null THEN [f EXCEPT !.over = TRUE]
       ELSE [f0 EXCEPT !.imgs[FreeImg(f0)] = SetImageUrl(imageUri),
                      !.messageList[i] =
                         [key |-> key, text |-> "", img |-> FreeImg(f0)]]
  ELSE f0

\* displayMessage(key, name, text, picUrl, imageUri)
DisplayMessage(f, key, text, imageUri) ==
  LET ml == IF HasEntry(f.messageList, key) THEN f.messageList
            ELSE Append(f.messageList, MESSAGE_TEMPLATE(key))
      i == EntryOf(ml, key)
      f0 == Detach([f EXCEPT !.messageList = ml], ml[i].img)  IN
  IF text # ""
  THEN [f0 EXCEPT !.messageList[i] = [key |-> key, text |-> text, img |-> Null]]
  ELSE IF imageUri # ""
  THEN IF FreeImg(f0) = Null THEN [f EXCEPT !.over = TRUE]
       ELSE [f0 EXCEPT !.imgs[FreeImg(f0)] = SetImageUrl(imageUri),
                      !.messageList[i] =
                         [key |-> key, text |-> "", img |-> FreeImg(f0)]]
  ELSE [f EXCEPT !.messageList = ml]

\* setMessage, the child_added and child_changed listener of loadMessages.
SetMessage(f, key) ==
  DisplayMessage(f, key, f.messages[key].text, f.messages[key].imageUrl)

\* loadMessages: off() and on(); the initial snapshot is yet to arrive.
LoadMessages(f) == [f EXCEPT !.messagesOn = "loading"]

\* The initial snapshot: child_added for every message, in key order.
RECURSIVE MessagesSnapshot(_, _)
MessagesSnapshot(f, key) ==
  IF key > Len(f.messages) \/ f.over THEN f
  ELSE MessagesSnapshot(SetMessage(f, key), key + 1)

\* messagesRef.push(m): the store assigns the next key; a live subscription
\* gets child_added.
Push(f, m) ==
  LET f1 == [f EXCEPT !.messages = Append(@, m)] IN
  IF f.messagesOn = "live" THEN SetMessage(f1, Len(f1.messages)) ELSE f1

\* update({imageUrl: uri}) on message key; a live subscription gets
\* child_changed.
Update(f, key, uri) ==
  LET f1 == [f EXCEPT !.messages[key].imageUrl = uri] IN
  IF f.messagesOn = "live" THEN SetMessage(f1, key) ELSE f1

\* saveMessage(e) with this.messageInput.value = value
SaveMessage(s, f, value) ==
  IF value # ""
  THEN IF s.currentUser
       THEN Push([f EXCEPT !.sendToast = ""], [text |-> value, imageUrl |-> ""])
       ELSE [f EXCEPT !.sendToast = "You must sign-in first"]
  ELSE [f EXCEPT !.sendToast = ""]

\* saveImageMessage(event) with a file of the given type; the upload starts
\* when the push is done.
SaveImageMessage(s, f, isImage) ==
  IF ~isImage THEN [f EXCEPT !.sendToast = "You can only share images"]
  ELSE IF s.currentUser
  THEN LET f1 == Push([f EXCEPT !.sendToast = ""],
                      [text |-> "", imageUrl |-> LOADING_IMAGE_URL]) IN
       [f1 EXCEPT !.uploads = @ \cup {Len(f1.messages)}]
  ELSE [f EXCEPT !.sendToast = "You must sign-in first"]

\* ---------------------------------------------------------------- actions
\* The tag of a handler that is no call operation itself: it may still have
\* ended the session (endPeerJs closes the calls of the Peer it destroys).
Ended(s, t) == IF s.call # Null /\ t.call = Null THEN "ended" ELSE ""
Transitions == {"placed", "replaced", "accepted", "signalled", "ended", "retry"}

Without(q, i) == [j \in 1..(Len(q) - 1) |-> IF j < i THEN q[j] ELSE q[j + 1]]

Init ==
  /\ currentUser = FALSE /\ isOnline = FALSE /\ mediaStream = FALSE
  /\ mediaWait = <<>> /\ peers = <<>> /\ peer = Null /\ peerId = Null
  /\ calls = [h \in Slots |-> NoHandle] /\ call = Null /\ peerVideo = Null
  /\ users = [u \in Uids |-> Absent] /\ usersOn = "off"
  /\ userList = [u \in Uids |-> NoEntry] /\ unsynced = FALSE
  /\ messages = <<>> /\ messagesOn = "off" /\ messageList = <<>>
  /\ imgs = [e \in ImgSlots |-> NoImg] /\ uploads = {} /\ storage = {}
  /\ sendToast = ""
  /\ last = ""

\* onAuthStateChanged(user): the user signed in.  loadMessages subscribes to
\* the messages, initMeidaStream asks for the microphone.
SignIn ==
  /\ ~currentUser
  /\ Len(mediaWait) < MaxMedia
  /\ Commit(InitMeidaStream([S EXCEPT !.currentUser = TRUE, !.last = ""],
                            "signIn"))
  /\ CommitFeed(LoadMessages(F))

\* onAuthStateChanged(null): the user signed out.
SignedOut(s) ==
  LET s1 == ClearUsers(EndPeerJs([s EXCEPT !.currentUser = FALSE])) IN
  [s1 EXCEPT !.unsynced = (s1.usersOn = "live")]

SignOut ==
  /\ currentUser
  /\ Done(SignedOut(S), Ended(S, SignedOut(S)))

\* The callback onAuthStateChanged gives initMeidaStream.
SignInMedia(s) ==
  LET s1 == LoadUsers(SaveUser(InitPeerJs(s))) IN
  [s1 EXCEPT !.unsynced = (Rendered(s1.userList) # {})]

\* getUserMedia succeeds for request i: initMeidaStream stores the stream and
\* calls cb() with no argument.
MediaGranted(s, i) ==
  LET s1 == [s EXCEPT !.mediaStream = TRUE, !.mediaWait = Without(@, i)] IN
  IF s.mediaWait[i] = "signIn" THEN SignInMedia(s1) ELSE CallToUser(s1, Null)

MediaSuccess ==
  \E i \in DOMAIN mediaWait :
    LET s1 == [S EXCEPT !.mediaStream = TRUE, !.mediaWait = Without(@, i)] IN
    /\ IF mediaWait[i] = "signIn"
       THEN currentUser => Len(peers) < MaxPeers
       ELSE CallToUserFits(s1)
    /\ Done(MediaGranted(S, i),
            IF mediaWait[i] = "signIn" THEN ""
            ELSE IF CallToUserEnd(s1) = "throw" THEN "retry.throw" ELSE "retry")

\* getUserMedia fails for request i: the error is logged.
MediaFailure ==
  \E i \in DOMAIN mediaWait :
    Done([S EXCEPT !.mediaWait = Without(@, i)], "")

\* onOnlineState(true) with this.isOnline false.
Connected(s) == [SaveUser(InitPeerJs(s)) EXCEPT !.isOnline = TRUE]

GoOnline ==
  /\ ~isOnline
  /\ currentUser => Len(peers) < MaxPeers
  /\ Done(Connected(S), "")

\* onOnlineState(false) with this.isOnline true; the store runs the
\* onDisconnect().remove() saveUser registered.
Disconnected(s) ==
  LET s1 == ClearUsers(EndPeerJs(s)) IN
  [s1 EXCEPT !.isOnline = FALSE, !.unsynced = (s1.usersOn = "live"),
             !.users[LocalUid] = Absent]

GoOffline ==
  /\ isOnline
  /\ Done(Disconnected(S), Ended(S, Disconnected(S)))

\* A remote client writes or removes its User Record.
RemoteSet ==
  \E u \in RemoteUids, p \in {Null} \cup RemotePeerIds :
    /\ users[u] # Record(p)
    /\ Done(StoreSet(S, u, Record(p)),
            IF usersOn = "live" /\ DisplayUserThrows(S, u, p)
            THEN "throw" ELSE "")

RemoteRemove ==
  \E u \in RemoteUids :
    /\ users[u].on
    /\ Done(StoreRemove(S, u), IF usersOn = "live" THEN "unsetUser" ELSE "")

\* The initial snapshot of the subscription arrives.
UsersLoaded ==
  /\ usersOn = "loading"
  /\ Done(Snapshot([S EXCEPT !.usersOn = "live"], 1),
          IF last \in Transitions THEN "redisplayed"
          ELSE IF last = "unsetUser" THEN "rebuilt"
          ELSE IF \E u \in Uids : users[u].on /\ DisplayUserThrows(S, u, users[u].peerId)
          THEN "throw" ELSE "")

\* A click on a roster entry's phone button runs the listener displayUser
\* attached: callToUser(peerId) or endCall().
ClickCall ==
  \E u \in Uids :
    /\ userList[u].shown /\ userList[u].btn
    /\ userList[u].listener = "callToUser"
    /\ CallToUserFits(S)
    /\ Done(CallToUser(S, userList[u].btnId), CallToUserEnd(S))

ClickEnd ==
  \E u \in Uids :
    /\ userList[u].shown /\ userList[u].btn
    /\ userList[u].listener = "endCall"
    /\ Done(EndCall(S), Ended(S, EndCall(S)))

\* The broker's `open` on Peer k: the handler stores the identifier and saves
\* the user.
OnPeerOpen(s, k) == SaveUser([s EXCEPT !.peers[k] = "open", !.peerId = k])

PeerOpen ==
  \E k \in DOMAIN peers :
    /\ peers[k] = "connecting"
    /\ Done(OnPeerOpen(S, k), "")

\* An error on Peer k: a fatal one destroys the Peer, which emits `close`
\* (handler: endPeerJs), and then `error`; the error handler runs endPeerJs.
OnPeerError(s, k, fatal) == EndPeerJs(IF fatal THEN Destroy(s, k) ELSE s)

PeerError ==
  \E k \in DOMAIN peers, fatal \in BOOLEAN :
    /\ peers[k] # "destroyed"
    /\ Done(OnPeerError(S, k, fatal), Ended(S, OnPeerError(S, k, fatal)))

\* The broker's `call` on Peer k: a remote peer offers a call.
OnPeerCall(s, k, p) ==
  ReciveCall([s EXCEPT !.calls[FreeSlot(s)] = Handle(p, "in", k, "offered")],
             FreeSlot(s))

\* A remote client that is online with a peer identifier calls this client.
PeerCall ==
  \E k \in DOMAIN peers, u \in RemoteUids :
    LET p == users[u].peerId IN
    /\ peers[k] = "open"
    /\ users[u].on /\ p # Null
    /\ HasFreeSlot(S)
    /\ Done(OnPeerCall(S, k, p),
            IF HasUserByPeerId(S, p) THEN "" ELSE "throw")

\* The accept notification of call h is on screen: the user clicks Answer.
ClickAnswer ==
  \E h \in Slots :
    /\ calls[h].prompt = "shown"
    /\ Done(AnswerCall(S, h),
            IF call # Null THEN "replaced" ELSE "accepted")

\* The notification of call h times out after 6 seconds.
PromptExpire ==
  \E h \in Slots :
    /\ calls[h].prompt = "shown"
    /\ Done([S EXCEPT !.calls[h].prompt = "expired"], "")

\* The handlers registered on call h: callToUser registers close and error,
\* answerCall registers stream and error.
OnCallClose(s, h) ==
  LET s1 == [s EXCEPT !.calls = CloseCall(s.calls, h)] IN
  IF s.calls[h].dir = "out" THEN EndCall(s1) ELSE s1

OnCallError(s, h) ==
  IF s.calls[h].state = "live" THEN EndCall(s) ELSE s

OnCallStream(s, h) ==
  LET s1 == [s EXCEPT !.calls[h].streamed = TRUE] IN
  IF s.calls[h].dir = "in" THEN [s1 EXCEPT !.peerVideo = h] ELSE s1

\* The broker signals that call h was closed by the remote side.
CallClose ==
  \E h \in Slots :
    /\ calls[h].state \in {"offered", "live"}
    /\ Done(OnCallClose(S, h),
            IF h = call THEN "signalled" ELSE Ended(S, OnCallClose(S, h)))

\* The broker signals an error on call h.
CallError ==
  \E h \in Slots :
    /\ calls[h].state \in {"offered", "live"}
    /\ Done(OnCallError(S, h),
            IF h = call THEN "signalled" ELSE Ended(S, OnCallError(S, h)))

\* The broker signals that the remote side of call h streamed media back.
CallStream ==
  \E h \in Slots :
    /\ calls[h].state = "live" /\ ~calls[h].streamed
    /\ Done(OnCallStream(S, h), "")

Next ==
  \/ SignIn \/ SignOut \/ MediaSuccess \/ MediaFailure
  \/ GoOnline \/ GoOffline
  \/ RemoteSet \/ RemoteRemove \/ UsersLoaded
  \/ ClickCall \/ ClickEnd
  \/ PeerOpen \/ PeerError \/ PeerCall
  \/ ClickAnswer \/ PromptExpire
  \/ CallClose \/ CallError \/ CallStream

Spec == Init /\ [][Next]_vars

\* callToUser(peerId) invoked on the client object directly, in any state, not
\* through a roster button.
ApiCallToUser ==
  \E p \in RemotePeerIds :
    /\ CallToUserFits(S)
    /\ Done(CallToUser(S, p), CallToUserEnd(S))

NextApi == Next \/ ApiCallToUser

SpecApi == Init /\ [][NextApi]_vars

\* The Peer's error handler as in PeerError, with the error recorded in
\* `last` for the step that follows it.
BrokerError ==
  \E k \in DOMAIN peers, fatal \in BOOLEAN :
    /\ peers[k] # "destroyed"
    /\ Done(OnPeerError(S, k, fatal),
            IF Ended(S, OnPeerError(S, k, fatal)) = "ended" THEN "ended"
            ELSE "error")

NextErr ==
  \/ SignIn \/ SignOut \/ MediaSuccess \/ MediaFailure
  \/ GoOnline \/ GoOffline
  \/ RemoteSet \/ RemoteRemove \/ UsersLoaded
  \/ ClickCall \/ ClickEnd
  \/ PeerOpen \/ BrokerError \/ PeerCall
  \/ ClickAnswer \/ PromptExpire
  \/ CallClose \/ CallError \/ CallStream

SpecErr == Init /\ [][NextErr]_vars

\* The initial snapshot of the messages subscription arrives.
MessagesLoaded ==
  /\ messagesOn = "loading"
  /\ DoneFeed(MessagesSnapshot([F EXCEPT !.messagesOn = "live"], 1), "")

\* How a send attempt ended: it wrote a message or was rejected.
Sent(f) == IF f.messages = messages THEN "rejected" ELSE "sent"

\* The message form is submitted.
SubmitMessage ==
  \E value \in Texts \cup {""} :
    /\ Len(messages) < MaxKeys
    /\ DoneFeed(SaveMessage(S, F, value), Sent(SaveMessage(S, F, value)))

\* A file is chosen in the picker.
SubmitImage ==
  \E isImage \in BOOLEAN :
    /\ Len(messages) < MaxKeys
    /\ DoneFeed(SaveImageMessage(S, F, isImage),
                Sent(SaveImageMessage(S, F, isImage)))

\* The upload of message key's file completes: the message gets the file's
\* storage URI.
UploadDone ==
  \E key \in uploads :
    DoneFeed(Update([F EXCEPT !.uploads = @ \ {key}, !.storage = @ \cup {key}],
                    key, "gs://1"), "")

\* The upload fails: the error is logged.
UploadFailed ==
  \E key \in uploads : DoneFeed([F EXCEPT !.uploads = @ \ {key}], "")

\* Another client sends a message, or updates the image of one.
RemotePush ==
  \E text \in Texts \cup {""}, uri \in ImageUris \cup {""} :
    /\ Len(messages) < MaxKeys
    /\ (text = "") # (uri = "")
    /\ DoneFeed(Push(F, [text |-> text, imageUrl |-> uri]), "")

RemoteUpdate ==
  \E key \in DOMAIN messages, uri \in StorageUris :
    /\ messages[key].text = "" /\ messages[key].imageUrl # uri
    /\ key \notin uploads
    /\ DoneFeed(Update(F, key, uri), "")

\* getMetadata() for uri resolves: the callback sets the element's src.
OnMetadata(f, e, uri) ==
  LET f1 == [f EXCEPT !.imgs[e].src = DownloadURL(uri),
                      !.imgs[e].pending = @ \ {uri}] IN
  IF \E i \in DOMAIN f.messageList : f.messageList[i].img = e
  THEN f1 ELSE Detach(f1, e)

MetadataResolved ==
  \E e \in ImgSlots : \E uri \in imgs[e].pending :
    DoneFeed(OnMetadata(F, e, uri), "")

NextFeed ==
  \/ SignIn \/ SignOut \/ MediaFailure
  \/ MessagesLoaded \/ SubmitMessage \/ SubmitImage
  \/ UploadDone \/ UploadFailed
  \/ RemotePush \/ RemoteUpdate \/ MetadataResolved

SpecFeed == Init /\ [][NextFeed]_vars

\* The error handler answerCall registered on call h runs after h was closed
\* and replaced as this.call: the broker reports an error of a connection
\* the client has already closed.  The handler is endCall(), whichever call
\* this.call is by then.  (h is known to have been answered: its stream is
\* the one the peerVideo element plays.)
LateCallError ==
  \E h \in Slots :
    /\ calls[h].state = "closed" /\ peerVideo = h /\ call # h
    /\ Done(EndCall(S), "late")

NextLate == Next \/ LateCallError

SpecLate == Init /\ [][NextLate]_vars

\* ------------------------------------------------------------------ claims

\* C1: once the listeners of loadUsers have processed every users-collection
\* event delivered so far (the subscription is live, its snapshot rendered),
\* the uids rendered in the roster are exactly the uids present in the users
\* collection: no ghost entry for a removed uid, no missing entry for a
\* present one.  The roster emptied by a sign-out or a lost store
\* connection, which are no users-collection events, is not covered.
C1_RosterMatchesCollection ==
  (usersOn = "live" /\ ~unsynced) => Rendered(userList) = Present(users)

\* A child_removed event was delivered, the roster was rebuilt from the
\* snapshot that followed, and it shows the local user alone.
C1_Witness ==
  /\ last = "rebuilt" /\ usersOn = "live" /\ ~unsynced
  /\ ~users["A"].on /\ users[LocalUid].on
  /\ Rendered(userList) = {LocalUid}

\* C2: at most one call session exists: every call handle that is live is
\* this.call, and after callToUser or answerCall ran while a session existed
\* there is exactly one session, the new one.
C2_AtMostOneSession ==
  /\ \A h \in Slots : calls[h].state = "live" => call = h
  /\ last = "replaced" => call # Null

\* A session was replaced: the new call is live and is the only live one.
C2_Witness ==
  /\ last = "replaced"
  /\ call # Null /\ calls[call].state = "live"
  /\ \A h \in Slots : h # call => calls[h].state # "live"

\* C3: after a call-state transition (call placed, inbound call accepted,
\* call closed or errored) and the roster redisplay it triggers, every
\* rendered remote user with a known peer identifier shows "end call"
\* (call_end) if and only if a call session with that peer identifier
\* exists, and "start call" (call) otherwise.
SessionWith(p) == call # Null /\ calls[call].remote = p

C3_AffordanceMatchesSession ==
  (last = "redisplayed" /\ currentUser) =>
    \A u \in RemoteUids :
      (userList[u].shown /\ users[u].peerId # Null) =>
        userList[u].icon =
          IF SessionWith(users[u].peerId) THEN "call_end" ELSE "call"

\* C4: when the broker signals close or an error on the handle of the call
\* session, the session is torn down (this.call is cleared) and a roster
\* rebuild is triggered, for a session made by answerCall as for one made by
\* callToUser.
C4_CloseOrErrorEndsSession ==
  last = "signalled" => (call = Null /\ usersOn = "loading")

\* C5: when a callToUser(p) deferred for the media stream is retried after
\* the acquisition succeeded, the retry creates the session with the peer
\* identifier p that was asked for.
C5_RetryCallsRequestedPeer ==
  last = "retry" => (call # Null /\ calls[call].remote \in RemotePeerIds)

\* C6: an inbound offer that is not accepted never creates or replaces a
\* call session: a handle that is still only offered is never this.call,
\* and neither the arrival of an offer nor the timeout of its notification
\* changes this.call or answers the call.
C6_Step ==
  \A h \in Slots :
    /\ (calls[h].state = "free" /\ calls'[h].state = "offered") => call' = call
    /\ (calls[h].prompt = "shown" /\ calls'[h].prompt = "expired") =>
         (call' = call /\ calls'[h].state = calls[h].state)

C6_UnacceptedOfferMakesNoSession ==
  /\ [](\A h \in Slots : calls[h].state = "offered" => call # h)
  /\ [][C6_Step]_vars

\* An offer of a remote peer timed out unanswered, and a later offer of the
\* same peer was accepted through answerCall: it is the session.
C6_Witness ==
  \E h1, h2 \in Slots :
    /\ h1 # h2
    /\ calls[h1].state = "offered" /\ calls[h1].prompt = "expired"
    /\ calls[h2].dir = "in" /\ calls[h2].remote = calls[h1].remote
    /\ calls[h2].state = "live" /\ call = h2

\* C7: every incoming call the broker delivers is surfaced: an inbound call
\* that is offered has its accept notification (shown, or timed out).
C7_EveryOfferSurfaced ==
  \A h \in Slots :
    (calls[h].dir = "in" /\ calls[h].state = "offered") =>
      calls[h].prompt # "none"

\* C8: once the broker has signalled `stream` on the handle of the session,
\* the remote stream of that call is attached to the peerVideo element, for
\* an outbound call as for an accepted inbound one.
C8_StreamAttached ==
  (call # Null /\ calls[call].state = "live" /\ calls[call].streamed) =>
    peerVideo = call

\* C9: a media acquisition is started only while none is outstanding and
\* none has succeeded.
C9_AcquiredOnce ==
  [][Len(mediaWait') > Len(mediaWait) => (~mediaStream /\ mediaWait = <<>>)]_vars

\* C10: a non-null peerId in the local client's User Record is the
\* identifier the `open` event gave the client's current broker session,
\* which is not destroyed.
C10_RecordPeerIdIsCurrent ==
  (users[LocalUid].on /\ users[LocalUid].peerId # Null) =>
    (peer # Null /\ peers[peer] = "open" /\ users[LocalUid].peerId = peer)

\* C11: a media-acquisition completion delivered after the sign-in that
\* started it has ended (nobody is signed in any more) has no effect: it
\* creates no Peer, writes no User Record, leaves the users subscription and
\* the roster as they are and does not change this.peerId.
C11_StaleCompletionHasNoEffect ==
  [][(~currentUser /\ Len(mediaWait') < Len(mediaWait)) =>
       /\ peers' = peers /\ peer' = peer /\ peerId' = peerId
       /\ users' = users /\ usersOn' = usersOn /\ userList' = userList]_vars

\* C12: after a broker error the client is in a safe idle-equivalent state:
\* the users-collection event that follows it (the initial snapshot of a
\* subscription, or a record written by a remote user) is rendered without a
\* runtime failure.
C12_RendersAfterBrokerError ==
  [][(/\ last = "error" /\ usersOn' = "live"
      /\ (usersOn = "loading" \/ users' # users)) => last' # "throw"]_vars

\* C13: in a roster the users-collection listeners keep up to date, the
\* local user's own entry has no call control (no icon, no click listener),
\* and a remote entry whose current User Record has no peer identifier has
\* none either.
NoCallControl(e) == e.icon = "" /\ e.listener = "none"

C13_NoControlWithoutPeerId ==
  (currentUser /\ usersOn = "live" /\ ~unsynced) =>
    /\ userList[LocalUid].shown => NoCallControl(userList[LocalUid])
    /\ \A u \in RemoteUids :
         (userList[u].shown /\ users[u].on /\ users[u].peerId = Null) =>
           NoCallControl(userList[u])

\* The media request completes one way or the other, the broker answers a
\* connecting Peer, and the store delivers the snapshot it owes.
Fairness ==
  /\ WF_vars(MediaSuccess \/ MediaFailure)
  /\ WF_vars(PeerOpen)
  /\ WF_vars(UsersLoaded)

SpecFair == Init /\ [][Next]_vars /\ Fairness

\* C14: a client that is signed in and connected to the store eventually has
\* a User Record under its uid (or is signed out or disconnected by then),
\* whatever the order of the sign-in, connection and media events, also when
\* the media acquisition fails.
C14_PresentEventually ==
  (currentUser /\ isOnline) ~>
    (users[LocalUid].on \/ ~currentUser \/ ~isOnline)

\* C15: a send attempt that is rejected (it writes no message) is reported
\* to the user: the handler showed a snackbar message.
C15_RejectedSendReported ==
  last = "rejected" => sendToast # ""

\* C16: the message list holds one entry per key of the messages collection
\* and no key twice (every message is rendered once the subscription is
\* live), and entries are only ever appended: the entries a step finds keep
\* their places, an event for a key that has an entry changes that entry.
C16_Keys == [i \in DOMAIN messageList |-> messageList[i].key]

C16_OneEntryPerKey ==
  /\ \A i, j \in DOMAIN messageList :
       messageList[i].key = messageList[j].key => i = j
  /\ messagesOn = "live" =>
       {messageList[i].key : i \in DOMAIN messageList} = DOMAIN messages

C16_Step ==
  /\ Len(messageList') >= Len(messageList)
  /\ \A i \in DOMAIN messageList : messageList'[i].key = messageList[i].key

C16_MessageListAppendOnly ==
  [](C16_OneEntryPerKey) /\ [][C16_Step]_vars

\* The image message with key 1 was appended with its placeholder and, after
\* the message with key 2 had been appended, changed to the uploaded file:
\* its entry was updated where it stood.
C16_Witness ==
  /\ Len(messageList) = 2 /\ C16_Keys = <<1, 2>>
  /\ 1 \in storage /\ messages[1].imageUrl = "gs://1"
  /\ messageList[1].img # Null
  /\ imgs[messageList[1].img].src = DownloadURL("gs://1")

\* C17: with the subscription live, the entry of a message that has only
\* text has no img element, and the entry of a message that has only an
\* imageUrl shows that reference: a direct URL as it is, a gs:// locator as
\* the placeholder while its resolution is outstanding and as the resolved
\* URL afterwards, also when resolutions of earlier references of the same
\* key complete later.  Rendering an added text message creates no img
\* element and starts no resolution.
C17_Shown(m, e) ==
  IF m.text # "" THEN e.img = Null /\ e.text = m.text
  ELSE /\ e.img # Null
       /\ imgs[e.img].src =
            IF m.imageUrl \notin StorageUris THEN m.imageUrl
            ELSE IF m.imageUrl \in imgs[e.img].pending THEN LOADING_IMAGE_URL
            ELSE DownloadURL(m.imageUrl)

C17_EntriesShowLatest ==
  messagesOn = "live" =>
    \A i \in DOMAIN messageList :
      C17_Shown(messages[messageList[i].key], messageList[i])

C17_Step ==
  (Len(messages') > Len(messages) /\ messages'[Len(messages')].text # "") =>
    imgs' = imgs

C17_ImageResolution ==
  [](C17_EntriesShowLatest) /\ [][C17_Step]_vars

\* The image of message 1 was changed from one stored file to another; the
\* later reference is resolved and shown while the resolution of the earlier
\* one is still outstanding on the element that was replaced.
C17_Witness ==
  /\ messagesOn = "live" /\ Len(messageList) >= 1
  /\ messages[messageList[1].key].imageUrl = "gs://2"
  /\ messageList[1].img # Null
  /\ imgs[messageList[1].img].src = DownloadURL("gs://2")
  /\ \E e \in ImgSlots : e # messageList[1].img /\ imgs[e].pending = {"gs://1"}

\* C18: the client holds at most one Peer that is not destroyed, and it is
\* this.peer: initPeerJs leaves no earlier Peer alive.
C18_OnePeerAlive ==
  \A k \in DOMAIN peers : peers[k] # "destroyed" => peer = k

\* C20: while no user is signed in the roster is empty.
C20_EmptyWhileSignedOut ==
  ~currentUser => Rendered(userList) = {}

\* C19: an event of a call handle that was replaced as this.call does not
\* close or clear the current call session.
C19_LateEventKeepsSession ==
  [][(last' = "late" /\ call # Null) =>
       (call' = call /\ calls'[call].state = calls[call].state)]_vars

\* onOnlineState as in GoOffline and GoOnline, with the loss of the store
\* connection of a signed-in client, and its return in the step that
\* follows, recorded in `last` ("offline", "reconnected").
ConnectionLost ==
  /\ isOnline
  /\ Done(Disconnected(S),
          IF currentUser THEN "offline" ELSE Ended(S, Disconnected(S)))

ConnectionBack ==
  /\ ~isOnline
  /\ currentUser => Len(peers) < MaxPeers
  /\ Done(Connected(S),
          IF last = "offline" /\ currentUser THEN "reconnected" ELSE "")

NextReconnect ==
  \/ SignIn \/ SignOut \/ MediaSuccess \/ MediaFailure
  \/ ConnectionBack \/ ConnectionLost
  \/ RemoteSet \/ RemoteRemove \/ UsersLoaded
  \/ ClickCall \/ ClickEnd
  \/ PeerOpen \/ PeerError \/ PeerCall
  \/ ClickAnswer \/ PromptExpire
  \/ CallClose \/ CallError \/ CallStream

SpecReconnect == Init /\ [][NextReconnect]_vars /\ Fairness

\* C21: after the store connection of a signed-in client with a live users
\* subscription was lost and came back, the roster eventually shows every
\* user present in the users collection (unless the user signs out or the
\* connection is lost again first).
C21_RosterRepopulated ==
  (last = "reconnected" /\ usersOn = "live") ~>
    (Rendered(userList) = Present(users) \/ ~currentUser \/ ~isOnline)

====
